---------------------------- MODULE Spec2Model ----------------------------
(***************************************************************************)
(* LLMeter: the session hook useOpenAI (per-provider credential / model /  *)
(* base URL kept in React state and mirrored to sessionStorage by          *)
(* effects), its sendMessage adapter, and the Home page's send cycle.      *)
(*                                                                         *)
(* Text is a sequence of string tokens; the tokens that the code searches  *)
(* for with String.includes ("openai.com", "/", ...) are tokens of their   *)
(* own, so that includes() is computed on the value, not looked up.        *)
(***************************************************************************)
EXTENDS Integers, Sequences, FiniteSets, TLC

VARIABLES
    \* ---- useOpenAI: React state (src/unnamed/part_001:19-23)
    apiKey, model, baseUrl, isConfigured, currentProvider,
    \* ---- useOpenAI: the browser's sessionStorage, key -> text or Null
    sessionStorage,
    \* ---- React bookkeeping: has the mount effect pass run, and the
    \*      dependency values of the previous render
    mounted, prevDeps,
    \* ---- history of the provider switches made since the last edit
    trail,
    \* ---- number of user operations performed on the session so far
    ops,
    \* ---- one invocation of useOpenAI.sendMessage made directly by a caller
    call,
    \* ---- Home: React state (src/unnamed/part_002:29-31)
    input, messages, isLoading,
    \* ---- Home: the active pricing entry (src/unnamed/part_002:34-38)
    tokenRates,
    \* ---- Home: the handleSubmit invocations so far, pending or finished
    sends,
    \* ---- PromptManager: React state (prompt-manager.tsx:28-40)
    prompts, systemPrompt, editingPrompt, isEditingSystem,
    \* ---- PromptManager: the browser's localStorage, key -> value or Null
    localStorage,
    \* ---- the clock that Date.now() reads
    now,
    \* ---- the last PromptManager handler that ran and what it did
    last,
    \* ---- PromptManager: the prompt text last put on the screen
    preview,
    \* ---- ConfigModal: its local state, and what the last Save asked for
    dialog,
    \* ---- the sessionStorage found by the last construction of the hook,
    \* ---- while nothing but its effects has run since
    booted

sessVars == <<apiKey, model, baseUrl, isConfigured, currentProvider,
              sessionStorage, mounted, prevDeps, trail, ops>>
adapVars == <<call>>
chatVars == <<input, messages, isLoading, tokenRates, sends>>
promptVars == <<prompts, systemPrompt, editingPrompt, isEditingSystem,
                localStorage, now, last>>

renderVars == <<preview>>

dialogVars == <<dialog>>

mountVars == <<booted>>

vars == <<sessVars, adapVars, chatVars, promptVars, renderVars, dialogVars, mountVars>>

-----------------------------------------------------------------------------
(* Bounds *)

MaxOps == 4

-----------------------------------------------------------------------------
(* Text *)

\* sessionStorage.getItem's null
Null == <<"<null>">>

\* JS truthiness of a string-or-null
Truthy(s) == s # Null /\ s # <<>>

\* String.prototype.includes, on tokens
Includes(s, tok) == \E i \in 1..Len(s) : s[i] = tok

IsSpace(tok) == tok = " " \/ tok = "\n"

RECURSIVE TrimStart(_)
TrimStart(t) == IF t # <<>> /\ IsSpace(Head(t)) THEN TrimStart(Tail(t)) ELSE t

RECURSIVE TrimEnd(_)
TrimEnd(t) == IF t # <<>> /\ IsSpace(t[Len(t)])
              THEN TrimEnd(SubSeq(t, 1, Len(t) - 1)) ELSE t

\* String.prototype.trim
Trim(t) == TrimEnd(TrimStart(t))

-----------------------------------------------------------------------------
(* Session configuration: useOpenAI *)

Providers == {"openai", "google", "anthropic", "custom"}

OpenAIUrl    == <<"https://api.", "openai.com", "/v1">>
GoogleUrl    == <<"https://generativelanguage.", "googleapis.com", "/v1beta">>
AnthropicUrl == <<"https://api.", "anthropic.com">>
Gpt4o        == <<"gpt-4o">>
GeminiFlash  == <<"gemini-2.0-flash">>
ClaudeHaiku  == <<"claude-3-haiku">>

\* the template-string storage keys
KProvider   == <<"llm_provider">>
KApiKey(p)  == <<"llm_api_key_", p>>
KModel(p)   == <<"llm_model_", p>>
KBaseUrl(p) == <<"llm_base_url_", p>>

StorageKeys == {KProvider} \cup {KApiKey(p) : p \in Providers}
                 \cup {KModel(p) : p \in Providers}
                 \cup {KBaseUrl(p) : p \in Providers}

getItem(store, k)      == store[k]
setItem(store, k, v)   == [store EXCEPT ![k] = v]
removeItem(store, k)   == [store EXCEPT ![k] = Null]

\* the hook's state together with the storage, as threaded through one
\* pass of effects: setX calls are queued and the last one wins
World == [apiKey |-> apiKey, model |-> model, baseUrl |-> baseUrl,
          isConfigured |-> isConfigured, currentProvider |-> currentProvider,
          store |-> sessionStorage]

\* the values a render closes over
Closure == [apiKey |-> apiKey, model |-> model, baseUrl |-> baseUrl,
            currentProvider |-> currentProvider]

\* lines 28-66 and 74-110: load the stored settings of provider p, else the
\* provider's defaults; custom has no branch, so nothing is set for it
LoadSettings(w, p) ==
    LET storedApiKey  == getItem(w.store, KApiKey(p))
        storedModel   == getItem(w.store, KModel(p))
        storedBaseUrl == getItem(w.store, KBaseUrl(p))
    IN [w EXCEPT
          !.apiKey = IF Truthy(storedApiKey) THEN storedApiKey ELSE <<>>,
          !.model  = IF Truthy(storedModel) THEN storedModel
                     ELSE IF p = "openai" THEN Gpt4o
                     ELSE IF p = "google" THEN GeminiFlash
                     ELSE IF p = "anthropic" THEN ClaudeHaiku
                     ELSE @,
          !.baseUrl = IF Truthy(storedBaseUrl) THEN storedBaseUrl
                      ELSE IF p = "openai" THEN OpenAIUrl
                      ELSE IF p = "google" THEN GoogleUrl
                      ELSE IF p = "anthropic" THEN AnthropicUrl
                      ELSE @,
          !.isConfigured = Truthy(storedApiKey)]

\* useEffect(..., []) : lines 26-67
MountEffect(w) ==
    LET raw            == getItem(w.store, KProvider)
        storedProvider == IF Truthy(raw) THEN raw[1] ELSE "google"
    IN LoadSettings([w EXCEPT !.currentProvider = storedProvider],
                    storedProvider)

\* useEffect(..., [currentProvider]) : lines 70-111
ProviderEffect(w, c) ==
    LoadSettings([w EXCEPT !.store = setItem(@, KProvider, <<c.currentProvider>>)],
                 c.currentProvider)

\* useEffect(..., [apiKey, currentProvider]) : lines 114-122
ApiKeyEffect(w, c) ==
    IF Truthy(c.apiKey)
    THEN [w EXCEPT !.store = setItem(@, KApiKey(c.currentProvider), c.apiKey),
                   !.isConfigured = TRUE]
    ELSE [w EXCEPT !.store = removeItem(@, KApiKey(c.currentProvider)),
                   !.isConfigured = FALSE]

\* useEffect(..., [model, currentProvider]) : lines 125-131
ModelEffect(w, c) ==
    IF Truthy(c.model)
    THEN [w EXCEPT !.store = setItem(@, KModel(c.currentProvider), c.model)]
    ELSE [w EXCEPT !.store = removeItem(@, KModel(c.currentProvider))]

\* useEffect(..., [baseUrl, currentProvider]) : lines 134-140
BaseUrlEffect(w, c) ==
    IF Truthy(c.baseUrl)
    THEN [w EXCEPT !.store = setItem(@, KBaseUrl(c.currentProvider), c.baseUrl)]
    ELSE [w EXCEPT !.store = removeItem(@, KBaseUrl(c.currentProvider))]

\* one flush of passive effects after a render: every effect whose
\* dependencies differ from the previous render's runs, in declaration
\* order, all of them closing over the rendered values c
RunEffects(w, c, first, d) ==
    LET pc == first \/ c.currentProvider # d.currentProvider
        w1 == IF first THEN MountEffect(w) ELSE w
        w2 == IF pc THEN ProviderEffect(w1, c) ELSE w1
        w3 == IF pc \/ c.apiKey # d.apiKey THEN ApiKeyEffect(w2, c) ELSE w2
        w4 == IF pc \/ c.model # d.model THEN ModelEffect(w3, c) ELSE w3
        w5 == IF pc \/ c.baseUrl # d.baseUrl THEN BaseUrlEffect(w4, c) ELSE w4
    IN w5

\* no effect is pending: the render's dependencies equal the previous ones
Settled == mounted /\ prevDeps = Closure

-----------------------------------------------------------------------------
(* Token Estimator: lib/tokenizer countTokens *)

\* lengths in characters of the literal parts of the two template strings
\* that Home builds; every other token of a text stands for one character
SimPrefixLen == 34
SimSuffixLen == 74
ErrPrefixLen == 99
DefaultSystemLen == 28

SimPrefix == "This is a simulated response to: \""
SimSuffix == "\".\n\nIn a real implementation, you would connect to an actual LLM API here."
DefaultSystemText == "You are a helpful assistant."
ErrPrefix == "Error: Failed to get response from the API. Please check your API key and configuration.\n\nDetails: "

TokLen(tok) == IF tok = SimPrefix THEN SimPrefixLen
               ELSE IF tok = SimSuffix THEN SimSuffixLen
               ELSE IF tok = ErrPrefix THEN ErrPrefixLen
               ELSE IF tok = DefaultSystemText THEN DefaultSystemLen
               ELSE 1

RECURSIVE StrLen(_)
StrLen(t) == IF t = <<>> THEN 0 ELSE TokLen(Head(t)) + StrLen(Tail(t))

\* about four characters per token, rounded to the nearest integer, at least
\* one for a non-empty text and zero for the empty one
countTokens(t) ==
    IF StrLen(t) = 0 THEN 0
    ELSE IF (StrLen(t) + 2) \div 4 < 1 THEN 1 ELSE (StrLen(t) + 2) \div 4

-----------------------------------------------------------------------------
(* Provider adapter: useOpenAI.sendMessage *)

Msg(r, c) == [role |-> r, content |-> c]

RECURSIVE SelectSeq2(_, _)
\* Array.prototype.filter(m => m.role !== role)
SelectSeq2(ms, role) ==
    IF ms = <<>> THEN <<>>
    ELSE IF Head(ms).role # role
         THEN <<Head(ms)>> \o SelectSeq2(Tail(ms), role)
         ELSE SelectSeq2(Tail(ms), role)

\* messages.find(m => m.role === "system")?.content || ""
SystemContent(ms) ==
    IF \E i \in 1..Len(ms) : ms[i].role = "system"
    THEN ms[CHOOSE i \in 1..Len(ms) :
               /\ ms[i].role = "system"
               /\ \A j \in 1..(i - 1) : ms[j].role # "system"].content
    ELSE <<>>

JsonHeader == "Content-Type" :> <<"application/json">>

\* lines 157-167 and 214-225
OpenAIRequest(k, m, b, ms) ==
    [endpoint |-> b \o <<"/chat/completions">>,
     headers  |-> JsonHeader @@ ("Authorization" :> (<<"Bearer ">> \o k)),
     body     |-> [model |-> m, messages |-> ms, temperature |-> "0.7"]]

\* GoogleRequest that never prefixes the model identifier
GoogleRequest_NoPrefix(k, m, b, ms) ==
    LET systemMessage == SystemContent(ms)
        rest == SelectSeq2(ms, "system")
        conversationParts ==
            [i \in 1..Len(rest) |->
                [role  |-> IF rest[i].role = "user" THEN "user" ELSE "model",
                 parts |-> <<[text |-> rest[i].content]>>]]
        contents == IF Len(conversationParts) > 0 THEN conversationParts
                    ELSE <<[parts |-> <<[text |-> <<"H", "e", "l", "l", "o">>]>>]>>
        config == [temperature |-> "0.7"]
    IN [endpoint |-> b \o <<"/">> \o m \o <<":generateContent?key=">> \o k,
        headers  |-> JsonHeader,
        body     |-> IF Truthy(systemMessage)
                     THEN [contents |-> contents,
                           systemInstruction |-> [parts |-> <<[text |-> systemMessage]>>],
                           generationConfig |-> config]
                     ELSE [contents |-> contents, generationConfig |-> config]]

\* GoogleRequest that sends the mapped messages as they are, also when
\* there are none
GoogleRequest_NoPlaceholder(k, m, b, ms) ==
    LET modelName == IF Includes(m, "/") THEN m ELSE <<"models", "/">> \o m
        systemMessage == SystemContent(ms)
        rest == SelectSeq2(ms, "system")
        contents ==
            [i \in 1..Len(rest) |->
                [role  |-> IF rest[i].role = "user" THEN "user" ELSE "model",
                 parts |-> <<[text |-> rest[i].content]>>]]
        config == [temperature |-> "0.7"]
    IN [endpoint |-> b \o <<"/">> \o modelName
                      \o <<":generateContent?key=">> \o k,
        headers  |-> JsonHeader,
        body     |-> IF Truthy(systemMessage)
                     THEN [contents |-> contents,
                           systemInstruction |-> [parts |-> <<[text |-> systemMessage]>>],
                           generationConfig |-> config]
                     ELSE [contents |-> contents, generationConfig |-> config]]

\* lines 168-195; JSON.stringify drops a systemInstruction of undefined
GoogleRequest(k, m, b, ms) ==
    LET modelName == IF Includes(m, "/") THEN m ELSE <<"models", "/">> \o m
        systemMessage == SystemContent(ms)
        rest == SelectSeq2(ms, "system")
        conversationParts ==
            [i \in 1..Len(rest) |->
                [role  |-> IF rest[i].role = "user" THEN "user" ELSE "model",
                 parts |-> <<[text |-> rest[i].content]>>]]
        contents == IF Len(conversationParts) > 0 THEN conversationParts
                    ELSE <<[parts |-> <<[text |-> <<"H", "e", "l", "l", "o">>]>>]>>
        config == [temperature |-> "0.7"]
    IN [endpoint |-> b \o <<"/">> \o modelName
                      \o <<":generateContent?key=">> \o k,
        headers  |-> JsonHeader,
        body     |-> IF Truthy(systemMessage)
                     THEN [contents |-> contents,
                           systemInstruction |-> [parts |-> <<[text |-> systemMessage]>>],
                           generationConfig |-> config]
                     ELSE [contents |-> contents, generationConfig |-> config]]

\* lines 196-213
AnthropicRequest(k, m, b, ms) ==
    [endpoint |-> b \o <<"/v1/messages">>,
     headers  |-> JsonHeader @@ ("x-api-key" :> k)
                    @@ ("anthropic-version" :> <<"2023-06-01">>),
     body     |-> [model |-> m, messages |-> SelectSeq2(ms, "system"),
                   system |-> SystemContent(ms), temperature |-> "0.7"]]

\* lines 148-225: the request shape is chosen by substrings of the base URL
BuildRequest(k, m, b, ms) ==
    LET isOpenAI    == Includes(b, "openai.com")
        isGoogle    == Includes(b, "googleapis.com")
        isAnthropic == Includes(b, "anthropic.com")
    IN IF isOpenAI THEN OpenAIRequest(k, m, b, ms)
       ELSE IF isGoogle THEN GoogleRequest(k, m, b, ms)
       ELSE IF isAnthropic THEN AnthropicRequest(k, m, b, ms)
       ELSE OpenAIRequest(k, m, b, ms)

\* what a finished sendMessage hands to its caller
Returned(c, n) == [threw |-> FALSE, error |-> <<>>, content |-> c, tokens |-> n]
Threw(e)       == [threw |-> TRUE, error |-> e, content |-> <<>>, tokens |-> 0]

ConfigErrorText == <<"API key is not configured">>

\* the engine's TypeError for reading a property of undefined
TypeErrorText(prop) == <<"Cannot read properties of undefined (reading '", prop, "')">>

Has(obj, f) == f \in DOMAIN obj

\* lines 243-245: data.choices[0].message.content, then
\* data.usage?.completion_tokens || countTokens(content)
ParseOpenAI(data) ==
    IF ~Has(data, "choices") THEN Threw(TypeErrorText("0"))
    ELSE IF Len(data.choices) = 0 THEN Threw(TypeErrorText("message"))
    ELSE IF ~Has(data.choices[1], "message") THEN Threw(TypeErrorText("content"))
    ELSE LET content == data.choices[1].message.content
             reported == IF Has(data, "usage") /\ Has(data.usage, "completion_tokens")
                         THEN data.usage.completion_tokens ELSE 0
         IN Returned(content, IF reported # 0 THEN reported ELSE countTokens(content))

\* lines 246-248: data.content[0].text, tokens always estimated
ParseAnthropic(data) ==
    IF ~Has(data, "content") THEN Threw(TypeErrorText("0"))
    ELSE IF Len(data.content) = 0 THEN Threw(TypeErrorText("text"))
    ELSE Returned(data.content[1].text, countTokens(data.content[1].text))

\* lines 249-258: every level is checked before it is read
ParseGoogle(data) ==
    LET content ==
          IF /\ Has(data, "candidates") /\ Len(data.candidates) > 0
             /\ Has(data.candidates[1], "content")
             /\ Has(data.candidates[1].content, "parts")
             /\ Len(data.candidates[1].content.parts) > 0
             /\ Has(data.candidates[1].content.parts[1], "text")
          THEN data.candidates[1].content.parts[1].text
          ELSE <<>>
    IN Returned(content, countTokens(content))

\* lines 238-263: the response shape is chosen by the same substrings, in
\* another order
ParseResponse(b, data) ==
    LET isOpenAI    == Includes(b, "openai.com")
        isGoogle    == Includes(b, "googleapis.com")
        isAnthropic == Includes(b, "anthropic.com")
    IN IF isOpenAI \/ (~isAnthropic /\ ~isGoogle) THEN ParseOpenAI(data)
       ELSE IF isAnthropic THEN ParseAnthropic(data)
       ELSE IF isGoogle THEN ParseGoogle(data)
       ELSE Returned(<<>>, 0)

\* JSON.stringify of an error payload: {} or {"error": <text>}
Stringify(v) ==
    IF Has(v, "error") THEN <<"{\"error\":\"">> \o v.error \o <<"\"}">>
    ELSE <<"{}">>

EmptyObject == [x \in {} |-> <<>>]

\* HttpErrorText without the .catch(() => ({})): an error body that cannot
\* be read makes response.json()'s own rejection the thrown error
HttpErrorText_NoCatch(o) ==
    IF o.readable
    THEN <<"API request failed: ", o.status, " ", o.statusText, " - ">>
           \o Stringify(o.data)
    ELSE <<"Unexpected end of JSON input">>

\* lines 233-236: response.json().catch(() => ({})) and the thrown Error
HttpErrorText(o) ==
    LET errorData == IF o.readable THEN o.data ELSE EmptyObject
    IN <<"API request failed: ", o.status, " ", o.statusText, " - ">>
         \o Stringify(errorData)

\* lines 227-267: what sendMessage does once fetch has settled with outcome o
\* (a rejected fetch, a non-2xx response, a 2xx response whose body cannot
\* be read, a 2xx response with JSON data); the catch rethrows unchanged
SendMessageSettle(b, o) ==
    IF o.rejects THEN Threw(o.message)
    ELSE IF ~o.ok THEN Threw(HttpErrorText(o))
    ELSE IF ~o.readable THEN Threw(o.message)
    ELSE ParseResponse(b, o.data)

\* NeedsKey with the guard left out
NeedsKey_Never(k) == FALSE

\* lines 142-145: the guard in front of everything else
NeedsKey(k) == ~Truthy(k)

\* lines 153-155: endpoint, headers and body before any branch has set them
NoRequest == [endpoint |-> <<>>, headers |-> EmptyObject, body |-> EmptyObject]

\* lines 142-231: sendMessage up to the point where fetch has been issued
SendMessageStart(k, m, b, ms) ==
    IF NeedsKey(k)
    THEN [threw |-> TRUE, error |-> ConfigErrorText, built |-> FALSE,
          fetches |-> 0, request |-> NoRequest]
    ELSE [threw |-> FALSE, error |-> <<>>, built |-> TRUE,
          fetches |-> 1, request |-> BuildRequest(k, m, b, ms)]

-----------------------------------------------------------------------------
(* The environment: what fetch can settle with *)

HiThere == <<"H", "i", " ", "t", "h", "e", "r", "e">>

Outcome(rej, ok, st, stt, rd, msg, d) ==
    [rejects |-> rej, ok |-> ok, status |-> st, statusText |-> stt,
     readable |-> rd, message |-> msg, data |-> d]

NetworkFailure == Outcome(TRUE, FALSE, "", "", FALSE, <<"Failed to fetch">>, EmptyObject)
Http401 == Outcome(FALSE, FALSE, "401", "Unauthorized", TRUE, <<>>,
                   [error |-> <<"invalid api key">>])
Http500 == Outcome(FALSE, FALSE, "500", "Internal Server Error", FALSE, <<>>,
                   EmptyObject)
Ok(d)   == Outcome(FALSE, TRUE, "200", "OK", TRUE, <<>>, d)
OkUnreadable == Outcome(FALSE, TRUE, "200", "OK", FALSE,
                        <<"Unexpected end of JSON input">>, EmptyObject)

Choice(c) == [message |-> [role |-> "assistant", content |-> c]]

\* the completion-token counts a provider may report
ReportedCounts == {0, 3}

OpenAIBodies ==
    {[choices |-> <<Choice(c)>>, usage |-> [completion_tokens |-> n]] :
         c \in {HiThere, <<>>}, n \in ReportedCounts}
    \cup {[choices |-> <<Choice(HiThere)>>],
          [choices |-> <<Choice(HiThere)>>, usage |-> [prompt_tokens |-> 3]],
          [choices |-> <<>>],
          [id |-> <<"resp-1">>]}

AnthropicBodies == {[content |-> <<[text |-> HiThere]>>], [content |-> <<>>]}

GoogleBodies ==
    {[candidates |-> <<[content |-> [parts |-> <<[text |-> HiThere]>>]]>>],
     [candidates |-> <<[content |-> [parts |-> <<>>]]>>],
     [candidates |-> <<[finishReason |-> "SAFETY"]>>],
     [candidates |-> <<>>]}

Bodies == OpenAIBodies \cup AnthropicBodies \cup GoogleBodies \cup {EmptyObject}

Outcomes == {NetworkFailure, Http401, Http500, OkUnreadable} \cup {Ok(d) : d \in Bodies}

-----------------------------------------------------------------------------
(* Shared initial values *)

AdapterKeys   == {<<>>, <<"k1">>}
AdapterModels == {Gpt4o, GeminiFlash, <<"tunedModels", "/", "m1">>}
AdapterUrls   == {OpenAIUrl, GoogleUrl, AnthropicUrl, <<"https://llm.example/v1">>,
                  <<"https://proxy.example/", "anthropic.com", "/", "googleapis.com">>}

Hi == <<"H", "i">>

MessageLists ==
    {<<>>,
     <<Msg("system", <<"Be terse">>)>>,
     <<Msg("system", <<"Be terse">>), Msg("user", Hi)>>,
     <<Msg("user", Hi), Msg("assistant", HiThere), Msg("user", Hi)>>}

Idle == [phase |-> "idle", msgs |-> <<>>, start |-> SendMessageStart(<<>>, <<>>, <<>>, <<>>),
         outcome |-> NetworkFailure, result |-> Threw(<<>>)]

\* the storage of a settled session on provider p with the given values
StoreFor(p, k, m, b) ==
    [x \in StorageKeys |->
        IF x = KProvider THEN <<p>>
        ELSE IF x = KApiKey(p) /\ Truthy(k) THEN k
        ELSE IF x = KModel(p) /\ Truthy(m) THEN m
        ELSE IF x = KBaseUrl(p) /\ Truthy(b) THEN b
        ELSE Null]

\* a settled session on provider p
SettledOn(p, k, m, b) ==
    /\ apiKey = k /\ model = m /\ baseUrl = b
    /\ isConfigured = Truthy(k)
    /\ currentProvider = p
    /\ sessionStorage = StoreFor(p, k, m, b)
    /\ mounted = TRUE
    /\ prevDeps = [apiKey |-> k, model |-> m, baseUrl |-> b, currentProvider |-> p]
    /\ trail = <<>>
    /\ ops = 0

\* lines 187-218: the pricing entries, in units of 10^-7 dollars per token
\* (0.0000005 is 5); any other model identifier gets the gpt-4o entry
Rates(m) ==
    IF m = <<"gpt-3.5-turbo">>
    THEN [inputPrice |-> 1, outputPrice |-> 2, model |-> "gpt-3.5-turbo"]
    ELSE IF m = <<"claude-3-haiku">>
    THEN [inputPrice |-> 8, outputPrice |-> 24, model |-> "claude-3-haiku"]
    ELSE IF m = <<"gemini-2-flash">>
    THEN [inputPrice |-> 3, outputPrice |-> 6, model |-> "gemini-2-flash"]
    ELSE [inputPrice |-> 5, outputPrice |-> 15, model |-> "gpt-4o"]

\* Home after its first effect pass: the effect of lines 75-79 has called
\* handleModelChange(currentModel)
ChatIdle ==
    /\ input = <<>> /\ messages = <<>> /\ isLoading = FALSE /\ sends = <<>>
    /\ tokenRates = Rates(model)

\* prompt-manager.tsx:33-38
DefaultSystemPrompt ==
    [id |-> "system", name |-> <<"System Prompt">>,
     content |-> <<DefaultSystemText>>,
     tokens |-> countTokens(<<DefaultSystemText>>)]

\* editingPrompt's null
NoPrompt == [id |-> "<null>"]

NoOp == [op |-> "none", accepted |-> FALSE, thrown |-> <<>>]

\* the hook was constructed in a tab with an empty sessionStorage, or a
\* setter has been called since its construction
NoBoot == [on |-> FALSE, store |-> [k \in StorageKeys |-> Null]]

\* no Save has been attempted since the dialog was opened
NoSave == [provider |-> "<none>"]

\* ConfigModal as constructed next to a freshly constructed hook
\* (config-modal.tsx:31-36): closed, its local values taken from the props.
\* wired says whether the caller passes provider and setProvider, as the
\* props interface requires; Home passes neither (part_002:227-236), and
\* provider || "openai" then gives "openai".
DialogClosed(wired) ==
    [isOpen |-> FALSE, wired |-> wired,
     localApiKey |-> <<>>, localModel |-> GeminiFlash,
     localBaseUrl |-> GoogleUrl,
     localProvider |-> IF wired THEN "google" ELSE "openai",
     error |-> <<>>, asked |-> NoSave]

\* nothing has been put on the screen yet
NoPreview == [content |-> <<>>, isTemplate |-> FALSE, input |-> <<>>,
              out |-> <<>>, shown |-> FALSE]

\* PromptManager mounted on an empty localStorage, its effects run: both
\* persist effects have written the initial values
PromptIdle ==
    /\ prompts = <<>>
    /\ systemPrompt = DefaultSystemPrompt
    /\ editingPrompt = NoPrompt
    /\ isEditingSystem = FALSE
    /\ localStorage = [llm_prompts |-> <<>>, llm_system_prompt |-> DefaultSystemPrompt]
    /\ now = 0
    /\ last = NoOp

-----------------------------------------------------------------------------
(* The session hook under user operations *)

SessionInit ==
    /\ apiKey = <<>>
    /\ model = GeminiFlash
    /\ baseUrl = GoogleUrl
    /\ isConfigured = FALSE
    /\ currentProvider = "google"
    /\ sessionStorage = [k \in StorageKeys |-> Null]
    /\ mounted = FALSE
    /\ prevDeps = Closure
    /\ trail = <<>>
    /\ ops = 0
    /\ call = Idle
    /\ ChatIdle
    /\ PromptIdle
    /\ preview = NoPreview
    /\ dialog = DialogClosed(FALSE)
    /\ booted = NoBoot

EffectPass ==
    /\ ~Settled
    /\ LET w == RunEffects(World, Closure, ~mounted, prevDeps)
       IN /\ apiKey' = w.apiKey
          /\ model' = w.model
          /\ baseUrl' = w.baseUrl
          /\ isConfigured' = w.isConfigured
          /\ currentProvider' = w.currentProvider
          /\ sessionStorage' = w.store
    /\ mounted' = TRUE
    /\ prevDeps' = Closure
    /\ UNCHANGED <<trail, ops>>
    /\ UNCHANGED <<adapVars, chatVars, promptVars, renderVars, dialogVars, mountVars>>

\* values a caller may hand to the setters
KeyInputs   == {<<>>, <<"k1">>, <<"k2">>}
ModelInputs == {<<>>, <<"my-model">>}
UrlInputs   == {<<>>, <<"https://llm.example/v1">>}

Snapshot == [provider |-> currentProvider, apiKey |-> apiKey, model |-> model,
             baseUrl |-> baseUrl, store |-> sessionStorage]

SetProvider(p) ==
    /\ Settled /\ ops < MaxOps
    /\ p # currentProvider
    /\ currentProvider' = p
    /\ trail' = Append(trail, Snapshot)
    /\ ops' = ops + 1
    /\ UNCHANGED <<apiKey, model, baseUrl, isConfigured, sessionStorage,
                   mounted, prevDeps>>
    /\ booted' = NoBoot
    /\ UNCHANGED <<adapVars, chatVars, promptVars, renderVars, dialogVars>>

SetApiKey(k) ==
    /\ Settled /\ ops < MaxOps
    /\ k # apiKey
    /\ apiKey' = k
    /\ trail' = <<>>
    /\ ops' = ops + 1
    /\ UNCHANGED <<model, baseUrl, isConfigured, currentProvider,
                   sessionStorage, mounted, prevDeps>>
    /\ booted' = NoBoot
    /\ UNCHANGED <<adapVars, chatVars, promptVars, renderVars, dialogVars>>

SetModel(m) ==
    /\ Settled /\ ops < MaxOps
    /\ m # model
    /\ model' = m
    /\ trail' = <<>>
    /\ ops' = ops + 1
    /\ UNCHANGED <<apiKey, baseUrl, isConfigured, currentProvider,
                   sessionStorage, mounted, prevDeps>>
    /\ booted' = NoBoot
    /\ UNCHANGED <<adapVars, chatVars, promptVars, renderVars, dialogVars>>

SetBaseUrl(u) ==
    /\ Settled /\ ops < MaxOps
    /\ u # baseUrl
    /\ baseUrl' = u
    /\ trail' = <<>>
    /\ ops' = ops + 1
    /\ UNCHANGED <<apiKey, model, isConfigured, currentProvider,
                   sessionStorage, mounted, prevDeps>>
    /\ booted' = NoBoot
    /\ UNCHANGED <<adapVars, chatVars, promptVars, renderVars, dialogVars>>

\* a page reload in the same tab: the hook is constructed afresh, the
\* sessionStorage survives
Reload ==
    /\ Settled /\ ops < MaxOps
    /\ apiKey' = <<>>
    /\ model' = GeminiFlash
    /\ baseUrl' = GoogleUrl
    /\ isConfigured' = FALSE
    /\ currentProvider' = "google"
    /\ mounted' = FALSE
    /\ prevDeps' = [apiKey |-> <<>>, model |-> GeminiFlash,
                    baseUrl |-> GoogleUrl, currentProvider |-> "google"]
    /\ trail' = <<>>
    /\ ops' = ops + 1
    /\ UNCHANGED sessionStorage
    /\ booted' = [on |-> TRUE, store |-> sessionStorage]
    /\ UNCHANGED <<adapVars, chatVars, promptVars, renderVars, dialogVars>>

SessionNext ==
    \/ EffectPass
    \/ \E p \in Providers : SetProvider(p)
    \/ \E k \in KeyInputs : SetApiKey(k)
    \/ \E m \in ModelInputs : SetModel(m)
    \/ \E u \in UrlInputs : SetBaseUrl(u)
    \/ Reload

SpecSession == SessionInit /\ [][SessionNext]_vars

-----------------------------------------------------------------------------
(* sendMessage called directly, for every configuration *)

AdapterInit ==
    /\ \E k \in AdapterKeys, m \in AdapterModels, b \in AdapterUrls :
          SettledOn("custom", k, m, b)
    /\ call = Idle
    /\ ChatIdle
    /\ PromptIdle
    /\ preview = NoPreview
    /\ dialog = DialogClosed(FALSE)
    /\ booted = NoBoot

CallSendMessage(ms) ==
    /\ call.phase = "idle"
    /\ LET s == SendMessageStart(apiKey, model, baseUrl, ms)
       IN call' = [call EXCEPT !.phase = IF s.threw THEN "threw" ELSE "fetching",
                               !.msgs = ms,
                               !.start = s,
                               !.result = IF s.threw THEN Threw(s.error) ELSE @]
    /\ UNCHANGED <<sessVars, chatVars, promptVars, renderVars, dialogVars, mountVars>>

FetchSettles(o) ==
    /\ call.phase = "fetching"
    /\ LET r == SendMessageSettle(baseUrl, o)
       IN call' = [call EXCEPT !.phase = IF r.threw THEN "threw" ELSE "returned",
                               !.outcome = o,
                               !.result = r]
    /\ UNCHANGED <<sessVars, chatVars, promptVars, renderVars, dialogVars, mountVars>>

AdapterNext ==
    \/ \E ms \in MessageLists : CallSendMessage(ms)
    \/ \E o \in Outcomes : FetchSettles(o)

SpecAdapter == AdapterInit /\ [][AdapterNext]_vars

-----------------------------------------------------------------------------
(* Template engine: PromptManager *)

MaxPrompts == 2
MaxClock == 1

Prompt(id, name, content, tmpl) ==
    [id |-> id, name |-> name, content |-> content,
     tokens |-> countTokens(content), isTemplate |-> tmpl]

Did(op, ok) == [op |-> op, accepted |-> ok, thrown |-> <<>>]

\* lines 66-73: the persist effects, run after the render of every change
Persist(ps, sp) == [llm_prompts |-> ps, llm_system_prompt |-> sp]

\* what can be typed into the name and content fields
PromptNames    == {<<" ">>, <<"n", " ">>}
PromptContents == {<<>>, <<" ", "a">>, <<"{query}", "?">>}
BeTerse        == <<"B", "e", " ", "t", "e", "r", "s", "e", "\n">>
SystemTexts    == {<<" ">>, BeTerse}

\* time passes
Tick ==
    /\ now < MaxClock
    /\ now' = now + 1
    /\ UNCHANGED <<prompts, systemPrompt, editingPrompt, isEditingSystem,
                   localStorage, last>>
    /\ UNCHANGED <<sessVars, adapVars, chatVars, renderVars, dialogVars, mountVars>>

\* lines 90-106, called with the form fields newPromptName, newPromptContent
\* and isTemplate holding name, content and tmpl
HandleCreatePrompt(name, content, tmpl) ==
    /\ Len(prompts) < MaxPrompts
    /\ IF ~Truthy(Trim(name)) \/ ~Truthy(Trim(content))
       THEN /\ UNCHANGED <<prompts, localStorage>>
            /\ last' = Did("create", FALSE)
       ELSE LET newPrompt == Prompt(ToString(now), Trim(name), Trim(content), tmpl)
            IN /\ prompts' = Append(prompts, newPrompt)
               /\ localStorage' = Persist(prompts', systemPrompt)
               /\ last' = Did("create", TRUE)
    /\ UNCHANGED <<systemPrompt, editingPrompt, isEditingSystem, now>>
    /\ UNCHANGED <<sessVars, adapVars, chatVars, renderVars, dialogVars, mountVars>>

\* line 364: the pencil of the i-th prompt
StartEdit(i) ==
    /\ i \in DOMAIN prompts
    /\ editingPrompt = NoPrompt
    /\ editingPrompt' = prompts[i]
    /\ last' = Did("form", TRUE)
    /\ UNCHANGED <<prompts, systemPrompt, isEditingSystem, localStorage, now>>
    /\ UNCHANGED <<sessVars, adapVars, chatVars, renderVars, dialogVars, mountVars>>

\* lines 276-331: typing into the edit form
EditName(t) ==
    /\ editingPrompt # NoPrompt
    /\ t # editingPrompt.name
    /\ editingPrompt' = [editingPrompt EXCEPT !.name = t]
    /\ last' = Did("form", TRUE)
    /\ UNCHANGED <<prompts, systemPrompt, isEditingSystem, localStorage, now>>
    /\ UNCHANGED <<sessVars, adapVars, chatVars, renderVars, dialogVars, mountVars>>

EditContent(t) ==
    /\ editingPrompt # NoPrompt
    /\ t # editingPrompt.content
    /\ editingPrompt' = [editingPrompt EXCEPT !.content = t,
                                              !.tokens = countTokens(t)]
    /\ last' = Did("form", TRUE)
    /\ UNCHANGED <<prompts, systemPrompt, isEditingSystem, localStorage, now>>
    /\ UNCHANGED <<sessVars, adapVars, chatVars, renderVars, dialogVars, mountVars>>

RECURSIVE MapPrompts(_, _)
\* prompts.map((p) => (p.id === updatedPrompt.id ? updatedPrompt : p))
MapPrompts(ps, u) ==
    IF ps = <<>> THEN <<>>
    ELSE <<IF Head(ps).id = u.id THEN u ELSE Head(ps)>> \o MapPrompts(Tail(ps), u)

RECURSIVE FilterPrompts(_, _)
\* prompts.filter((p) => p.id !== id)
FilterPrompts(ps, id) ==
    IF ps = <<>> THEN <<>>
    ELSE IF Head(ps).id # id THEN <<Head(ps)>> \o FilterPrompts(Tail(ps), id)
         ELSE FilterPrompts(Tail(ps), id)

\* lines 108-120
HandleUpdatePrompt ==
    /\ editingPrompt # NoPrompt
    /\ IF ~Truthy(Trim(editingPrompt.name)) \/ ~Truthy(Trim(editingPrompt.content))
       THEN /\ UNCHANGED <<prompts, editingPrompt, localStorage>>
            /\ last' = Did("update", FALSE)
       ELSE LET updatedPrompt ==
                  [editingPrompt EXCEPT
                      !.name = Trim(editingPrompt.name),
                      !.content = Trim(editingPrompt.content),
                      !.tokens = countTokens(Trim(editingPrompt.content))]
            IN /\ prompts' = MapPrompts(prompts, updatedPrompt)
               /\ editingPrompt' = NoPrompt
               /\ localStorage' = Persist(prompts', systemPrompt)
               /\ last' = Did("update", TRUE)
    /\ UNCHANGED <<systemPrompt, isEditingSystem, now>>
    /\ UNCHANGED <<sessVars, adapVars, chatVars, renderVars, dialogVars, mountVars>>

\* line 341: Cancel in the edit form
CancelEdit ==
    /\ editingPrompt # NoPrompt
    /\ editingPrompt' = NoPrompt
    /\ last' = Did("form", TRUE)
    /\ UNCHANGED <<prompts, systemPrompt, isEditingSystem, localStorage, now>>
    /\ UNCHANGED <<sessVars, adapVars, chatVars, renderVars, dialogVars, mountVars>>

\* lines 135-139, the confirm dialog answered with OK; the bin is shown for
\* the prompts that are not in the edit form
HandleDeletePrompt(i) ==
    /\ i \in DOMAIN prompts
    /\ editingPrompt.id # prompts[i].id
    /\ prompts' = FilterPrompts(prompts, prompts[i].id)
    /\ localStorage' = Persist(prompts', systemPrompt)
    /\ last' = Did("delete", TRUE)
    /\ UNCHANGED <<systemPrompt, editingPrompt, isEditingSystem, now>>
    /\ UNCHANGED <<sessVars, adapVars, chatVars, renderVars, dialogVars, mountVars>>

\* line 212: the pencil of the System Prompt
StartEditSystem ==
    /\ ~isEditingSystem
    /\ isEditingSystem' = TRUE
    /\ last' = Did("form", TRUE)
    /\ UNCHANGED <<prompts, systemPrompt, editingPrompt, localStorage, now>>
    /\ UNCHANGED <<sessVars, adapVars, chatVars, renderVars, dialogVars, mountVars>>

\* TypeSystemPrompt that keeps the token count of the text before
TypeSystemPrompt_StaleCount(t) ==
    /\ isEditingSystem
    /\ t # systemPrompt.content
    /\ systemPrompt' = [systemPrompt EXCEPT !.content = t]
    /\ localStorage' = Persist(prompts, systemPrompt')
    /\ last' = Did("form", TRUE)
    /\ UNCHANGED <<prompts, editingPrompt, isEditingSystem, now>>
    /\ UNCHANGED <<sessVars, adapVars, chatVars, renderVars, dialogVars, mountVars>>

\* lines 244-252: the System Prompt textarea's onChange writes the state
\* that the persist effect saves
TypeSystemPrompt(t) ==
    /\ isEditingSystem
    /\ t # systemPrompt.content
    /\ systemPrompt' = [systemPrompt EXCEPT !.content = t,
                                            !.tokens = countTokens(t)]
    /\ localStorage' = Persist(prompts, systemPrompt')
    /\ last' = Did("form", TRUE)
    /\ UNCHANGED <<prompts, editingPrompt, isEditingSystem, now>>
    /\ UNCHANGED <<sessVars, adapVars, chatVars, renderVars, dialogVars, mountVars>>

\* lines 122-133
HandleUpdateSystemPrompt ==
    /\ isEditingSystem
    /\ IF ~Truthy(Trim(systemPrompt.content))
       THEN /\ UNCHANGED <<systemPrompt, isEditingSystem, localStorage>>
            /\ last' = Did("updateSystem", FALSE)
       ELSE /\ systemPrompt' =
                  [systemPrompt EXCEPT
                      !.content = Trim(systemPrompt.content),
                      !.tokens = countTokens(Trim(systemPrompt.content))]
            /\ isEditingSystem' = FALSE
            /\ localStorage' = Persist(prompts, systemPrompt')
            /\ last' = Did("updateSystem", TRUE)
    /\ UNCHANGED <<prompts, editingPrompt, now>>
    /\ UNCHANGED <<sessVars, adapVars, chatVars, renderVars, dialogVars, mountVars>>

\* line 233: the X of the System Prompt editor
CancelEditSystem ==
    /\ isEditingSystem
    /\ isEditingSystem' = FALSE
    /\ last' = Did("form", TRUE)
    /\ UNCHANGED <<prompts, systemPrompt, editingPrompt, localStorage, now>>
    /\ UNCHANGED <<sessVars, adapVars, chatVars, renderVars, dialogVars, mountVars>>

\* a page reload: the component is constructed afresh and its mount effect
\* (lines 43-63) loads what the persist effects saved
ReloadPrompts ==
    /\ last.op # "reload"
    /\ prompts' = localStorage.llm_prompts
    /\ systemPrompt' = localStorage.llm_system_prompt
    /\ editingPrompt' = NoPrompt
    /\ isEditingSystem' = FALSE
    /\ last' = Did("reload", TRUE)
    /\ UNCHANGED <<localStorage, now>>
    /\ UNCHANGED <<sessVars, adapVars, chatVars, renderVars, dialogVars, mountVars>>

PromptsInit ==
    /\ SettledOn("google", <<>>, GeminiFlash, GoogleUrl)
    /\ call = Idle
    /\ ChatIdle
    /\ PromptIdle
    /\ preview = NoPreview
    /\ dialog = DialogClosed(FALSE)
    /\ booted = NoBoot

PromptsNext ==
    \/ Tick
    \/ \E n \in PromptNames, c \in PromptContents, t \in BOOLEAN :
          HandleCreatePrompt(n, c, t)
    \/ \E i \in 1..MaxPrompts : StartEdit(i)
    \/ EditName(<<" ">>)
    \/ \E t \in {<<>>, <<" ", "a">>} : EditContent(t)
    \/ HandleUpdatePrompt
    \/ CancelEdit
    \/ \E i \in 1..MaxPrompts : HandleDeletePrompt(i)
    \/ StartEditSystem
    \/ \E t \in SystemTexts : TypeSystemPrompt(t)
    \/ HandleUpdateSystemPrompt
    \/ CancelEditSystem
    \/ ReloadPrompts

SpecPrompts == PromptsInit /\ [][PromptsNext]_vars

-----------------------------------------------------------------------------
(* Configuration dialog: ConfigModal over the session hook *)

MaxOpens == 2

\* the options of the model select of each provider (two of each), and the
\* texts typed into the model field of custom
ModelOptions ==
    [p \in Providers |->
        IF p = "openai" THEN {Gpt4o, <<"gpt-3.5-turbo">>}
        ELSE IF p = "google" THEN {GeminiFlash, <<"gemini-1.5-pro">>}
        ELSE IF p = "anthropic" THEN {ClaudeHaiku, <<"claude-3-opus">>}
        ELSE {<<>>, <<"my-model">>}]

DialogKeys == {<<" ">>, <<"k1">>}
DialogUrls == {<<>>, <<"https://llm.example/v1">>}

\* part_002:247 and config-modal.tsx:39-47: the settings button opens the
\* dialog and its effect copies the props into the local state
OpenDialog ==
    /\ Settled /\ ops < MaxOpens
    /\ ~dialog.isOpen
    /\ dialog' = [dialog EXCEPT
                    !.isOpen = TRUE,
                    !.localApiKey = apiKey,
                    !.localModel = IF Truthy(model) THEN model ELSE Gpt4o,
                    !.localBaseUrl = baseUrl,
                    !.localProvider = IF dialog.wired THEN currentProvider
                                      ELSE "openai",
                    !.error = <<>>,
                    !.asked = NoSave]
    /\ ops' = ops + 1
    /\ UNCHANGED <<apiKey, model, baseUrl, isConfigured, currentProvider,
                   sessionStorage, mounted, prevDeps, trail>>
    /\ UNCHANGED <<adapVars, chatVars, promptVars, renderVars, mountVars>>

\* the X button: onClose
CloseDialog ==
    /\ dialog.isOpen
    /\ dialog' = [dialog EXCEPT !.isOpen = FALSE]
    /\ UNCHANGED <<sessVars, adapVars, chatVars, promptVars, renderVars, mountVars>>

\* config-modal.tsx:93-107: a provider button; custom has no branch
HandleProviderChange(p) ==
    /\ dialog.isOpen
    /\ dialog' = [dialog EXCEPT
                    !.localProvider = p,
                    !.localModel = IF p = "openai" THEN Gpt4o
                                   ELSE IF p = "google" THEN GeminiFlash
                                   ELSE IF p = "anthropic" THEN ClaudeHaiku
                                   ELSE @,
                    !.localBaseUrl = IF p = "openai" THEN OpenAIUrl
                                     ELSE IF p = "google" THEN GoogleUrl
                                     ELSE IF p = "anthropic" THEN AnthropicUrl
                                     ELSE @]
    /\ UNCHANGED <<sessVars, adapVars, chatVars, promptVars, renderVars, mountVars>>

\* the API key field
SetLocalApiKey(k) ==
    /\ dialog.isOpen
    /\ dialog' = [dialog EXCEPT !.localApiKey = k]
    /\ UNCHANGED <<sessVars, adapVars, chatVars, promptVars, renderVars, mountVars>>

\* the model select of the chosen provider, the model field of custom
SetLocalModel(m) ==
    /\ dialog.isOpen
    /\ m \in ModelOptions[dialog.localProvider]
    /\ dialog' = [dialog EXCEPT !.localModel = m]
    /\ UNCHANGED <<sessVars, adapVars, chatVars, promptVars, renderVars, mountVars>>

\* the base URL field, shown for custom only
SetLocalBaseUrl(u) ==
    /\ dialog.isOpen
    /\ dialog.localProvider = "custom"
    /\ dialog' = [dialog EXCEPT !.localBaseUrl = u]
    /\ UNCHANGED <<sessVars, adapVars, chatVars, promptVars, renderVars, mountVars>>

\* config-modal.tsx:59-67
FinalBaseUrl(p, u) ==
    IF p = "openai" THEN OpenAIUrl
    ELSE IF p = "google" THEN GoogleUrl
    ELSE IF p = "anthropic" THEN AnthropicUrl
    ELSE u

\* config-modal.tsx:69-77
FinalModel(p, m) ==
    IF p = "openai" /\ ~Truthy(m) THEN Gpt4o
    ELSE IF p = "google" /\ ~Truthy(m) THEN GeminiFlash
    ELSE IF p = "anthropic" /\ ~Truthy(m) THEN ClaudeHaiku
    ELSE m

KeyRequiredText == <<"API key is required">>
NotAFunctionText == <<"setProvider is not a function">>

\* config-modal.tsx:48-91, the Save button. A blank key throws before
\* anything is set; calling the setProvider prop throws when the caller
\* passed none; otherwise the four setters are batched into one render and
\* the dialog closes. asked records what a Save with a usable key asked for.
HandleSave ==
    /\ dialog.isOpen
    /\ LET p == dialog.localProvider
           k == dialog.localApiKey
           finalBaseUrl == FinalBaseUrl(p, dialog.localBaseUrl)
           finalModel   == FinalModel(p, dialog.localModel)
           asked == [provider |-> p, apiKey |-> k, model |-> finalModel,
                     baseUrl |-> finalBaseUrl]
       IN IF ~Truthy(Trim(k))
          THEN /\ dialog' = [dialog EXCEPT !.error = KeyRequiredText]
               /\ UNCHANGED <<apiKey, model, baseUrl, currentProvider>>
          ELSE IF ~dialog.wired
          THEN /\ dialog' = [dialog EXCEPT !.error = NotAFunctionText,
                                           !.asked = asked]
               /\ UNCHANGED <<apiKey, model, baseUrl, currentProvider>>
          ELSE /\ currentProvider' = p
               /\ apiKey' = k
               /\ model' = finalModel
               /\ baseUrl' = finalBaseUrl
               /\ dialog' = [dialog EXCEPT !.isOpen = FALSE, !.asked = asked]
    /\ UNCHANGED <<isConfigured, sessionStorage, mounted, prevDeps, trail, ops>>
    /\ UNCHANGED <<adapVars, chatVars, promptVars, renderVars, mountVars>>

\* the hook freshly constructed, the dialog beside it, wired to the hook's
\* provider and setProvider or mounted as Home mounts it
DialogInit ==
    /\ apiKey = <<>>
    /\ model = GeminiFlash
    /\ baseUrl = GoogleUrl
    /\ isConfigured = FALSE
    /\ currentProvider = "google"
    /\ sessionStorage = [k \in StorageKeys |-> Null]
    /\ mounted = FALSE
    /\ prevDeps = Closure
    /\ trail = <<>>
    /\ ops = 0
    /\ call = Idle
    /\ ChatIdle
    /\ PromptIdle
    /\ preview = NoPreview
    /\ \E wired \in BOOLEAN : dialog = DialogClosed(wired)
    /\ booted = NoBoot

DialogNext ==
    \/ EffectPass
    \/ OpenDialog
    \/ CloseDialog
    \/ \E p \in Providers : HandleProviderChange(p)
    \/ \E k \in DialogKeys : SetLocalApiKey(k)
    \/ \E m \in UNION {ModelOptions[p] : p \in Providers} : SetLocalModel(m)
    \/ \E u \in DialogUrls : SetLocalBaseUrl(u)
    \/ HandleSave

SpecDialog == DialogInit /\ [][DialogNext]_vars

-----------------------------------------------------------------------------
(* Template engine: previewTemplate, the rendering of a prompt card *)

MaxTextLen == 2

\* all texts of at most n tokens over the alphabet A
TextsOver(A, n) == UNION {[1..k -> A] : k \in 0..n}

Placeholder == "{query}"

\* the text substituted while nothing has been typed
InputHint == <<"[Your input will appear here]">>

\* the characters U+0060 and U+0027, one token each
Grave      == "<grave>"
Apostrophe == "<apostrophe>"

\* String.prototype.replace with a string as second argument: the
\* replacement patterns of GetSubstitution.  "$$" inserts "$", "$&" the
\* matched text, "$" and a grave accent the text before the match, "$" and
\* an apostrophe the text after it;
\* /{query}/ has no capture groups, so any other "$" stays as it is.
RECURSIVE GetSubstitution(_, _, _, _)
GetSubstitution(matched, before, after, replacement) ==
    IF replacement = <<>> THEN <<>>
    ELSE IF Head(replacement) = "$" /\ Len(replacement) >= 2
    THEN LET c    == replacement[2]
             rest == SubSeq(replacement, 3, Len(replacement))
         IN  CASE c = "$"  -> <<"$">>  \o GetSubstitution(matched, before, after, rest)
               [] c = "&"  -> matched  \o GetSubstitution(matched, before, after, rest)
               [] c = Grave -> before   \o GetSubstitution(matched, before, after, rest)
               [] c = Apostrophe -> after    \o GetSubstitution(matched, before, after, rest)
               [] OTHER    -> <<"$">>  \o GetSubstitution(matched, before, after,
                                                         Tail(replacement))
    ELSE <<Head(replacement)>> \o
         GetSubstitution(matched, before, after, Tail(replacement))

\* template.replace(/{query}/g, replacement): every match is replaced, the
\* text before and after a match being taken from the original template
RECURSIVE ReplaceFrom(_, _, _)
ReplaceFrom(template, replacement, i) ==
    IF i > Len(template) THEN <<>>
    ELSE (IF template[i] = Placeholder
          THEN GetSubstitution(<<Placeholder>>,
                               SubSeq(template, 1, i - 1),
                               SubSeq(template, i + 1, Len(template)),
                               replacement)
          ELSE <<template[i]>>)
         \o ReplaceFrom(template, replacement, i + 1)

ReplaceAll(template, replacement) == ReplaceFrom(template, replacement, 1)

previewTemplate(template, typed) ==
    IF typed = <<>> THEN ReplaceAll(template, InputHint)
    ELSE ReplaceAll(template, typed)

\* what a prompt card puts on the screen for the current user input
RenderCard(content, isTemplate, userInput) ==
    IF isTemplate THEN previewTemplate(content, userInput) ELSE content

TemplateTexts == TextsOver({Placeholder, "a"}, MaxTextLen)
UserInputs    == TextsOver({"$", "&", Grave, Apostrophe, "x", Placeholder}, MaxTextLen)

\* the card of the prompt is drawn for the text in the input box
ShowCard ==
    /\ ~preview.shown
    /\ preview' = [preview EXCEPT
                      !.out = RenderCard(preview.content, preview.isTemplate,
                                         preview.input),
                      !.shown = TRUE]
    /\ UNCHANGED <<sessVars, adapVars, chatVars, promptVars, dialogVars, mountVars>>

\* a prompt and a user input, any of them, nothing drawn yet
RenderInit ==
    /\ SettledOn("google", <<>>, GeminiFlash, GoogleUrl)
    /\ call = Idle
    /\ ChatIdle
    /\ PromptIdle
    /\ preview \in [content : TemplateTexts, isTemplate : BOOLEAN,
                     input : UserInputs, out : {<<>>}, shown : {FALSE}]
    /\ dialog = DialogClosed(FALSE)
    /\ booted = NoBoot

RenderNext == ShowCard

SpecRender == RenderInit /\ [][RenderNext]_vars

-----------------------------------------------------------------------------
(* Conversation accumulator: Home *)

MaxSends == 2

Entry(r, c, n) == [role |-> r, content |-> c, tokens |-> n]

RECURSIVE SumTokens_AnyRole(_, _)
\* SumTokens without the test of the role
SumTokens_AnyRole(ms, role) ==
    IF ms = <<>> THEN 0
    ELSE Head(ms).tokens + SumTokens_AnyRole(Tail(ms), role)

RECURSIVE SumTokens(_, _)
\* lines 45-56: the reduce over messages, message.tokens || 0 by role
SumTokens(ms, role) ==
    IF ms = <<>> THEN 0
    ELSE (IF Head(ms).role = role THEN Head(ms).tokens ELSE 0)
         + SumTokens(Tail(ms), role)

tokenStats == [inputTokens  |-> SumTokens(messages, "user"),
               outputTokens |-> SumTokens(messages, "assistant")]

\* lines 58-61, in units of 10^-7 dollars
totalTokens == tokenStats.inputTokens + tokenStats.outputTokens
inputCost   == tokenStats.inputTokens * tokenRates.inputPrice
outputCost  == tokenStats.outputTokens * tokenRates.outputPrice
totalCost   == inputCost + outputCost

\* lines 88-93
UserMessage(text) == Entry("user", text, countTokens(text))

\* lines 102-117: a fixed system message, the earlier non-system entries
\* reduced to role and content, and the new user message
MessageHistory(ms, text) ==
    LET rest == SelectSeq2(ms, "system")
    IN <<Msg("system", <<DefaultSystemText>>)>>
         \o [i \in 1..Len(rest) |-> Msg(rest[i].role, rest[i].content)]
         \o <<Msg("user", text)>>

\* lines 122-127: tokens: response.tokens || countTokens(response.content)
AssistantMessage(r) ==
    Entry("assistant", r.content,
          IF r.tokens # 0 THEN r.tokens ELSE countTokens(r.content))

\* lines 136-144
SimulatedMessage(text) ==
    LET responseText == <<SimPrefix>> \o text \o <<SimSuffix>>
    IN Entry("assistant", responseText, countTokens(responseText))

\* ErrorMessage with the error text counted like a reply
ErrorMessage_Counted(e) ==
    Entry("assistant", <<ErrPrefix>> \o e, countTokens(<<ErrPrefix>> \o e))

\* lines 153-158
ErrorMessage(e) == Entry("assistant", <<ErrPrefix>> \o e, 0)

Outstanding(S) == {i \in DOMAIN S : S[i].phase \in {"fetch", "timer"}}

\* bookkeeping of a send that is finished and no longer the latest event
Archived == [phase |-> "done", text |-> <<>>, configured |-> FALSE,
             before |-> <<>>, history |-> <<>>, prompt |-> <<>>, quiet |-> FALSE, cut |-> FALSE,
             start |-> SendMessageStart(<<>>, <<>>, <<>>, <<>>),
             outcome |-> NetworkFailure, result |-> Threw(<<>>)]

\* a submit or a clear ends the quiet run of every send: an outstanding one
\* is marked, a finished one is archived
Disturb(S, cleared) ==
    [i \in DOMAIN S |->
        IF S[i].phase = "done" THEN Archived
        ELSE [S[i] EXCEPT !.quiet = FALSE, !.cut = @ \/ cleared]]

\* the settled sessions the conversation is exercised on
ChatConfigs ==
    {<<"google", <<>>, GeminiFlash, GoogleUrl>>,
     <<"openai", <<"k1">>, Gpt4o, OpenAIUrl>>,
     <<"google", <<"k1">>, GeminiFlash, GoogleUrl>>,
     <<"custom", <<"k1">>, <<"my-model">>, <<"https://llm.example/v1">>>>}

ChatTexts == {<<" ">>, Hi, <<"H", "e", "l", "l", "o", "!">>}

ChatOutcomes ==
    {NetworkFailure, Http401,
     Ok([choices |-> <<Choice(HiThere)>>, usage |-> [completion_tokens |-> 3]]),
     Ok([choices |-> <<Choice(HiThere)>>, usage |-> [completion_tokens |-> 0]]),
     Ok([choices |-> <<Choice(HiThere)>>]),
     Ok([candidates |-> <<[content |-> [parts |-> <<[text |-> HiThere]>>]]>>])}

ChatInit ==
    /\ \E c \in ChatConfigs : SettledOn(c[1], c[2], c[3], c[4])
    /\ call = Idle
    /\ ChatIdle
    /\ PromptIdle
    /\ preview = NoPreview
    /\ dialog = DialogClosed(FALSE)
    /\ booted = NoBoot

\* the Textarea's onChange
SetInput(t) ==
    /\ Len(sends) < MaxSends
    /\ t # input
    /\ input' = t
    /\ UNCHANGED <<messages, isLoading, tokenRates, sends, sessVars, adapVars, promptVars, renderVars, dialogVars, mountVars>>

\* lines 81-164, up to the first suspension: the await of sendMessage on a
\* configured session, the return on an unconfigured one. A sendMessage
\* that throws before it fetches is caught in the same turn.
HandleSubmit ==
    /\ Len(sends) < MaxSends
    /\ Truthy(Trim(input))
    /\ LET messageHistory == MessageHistory(messages, input)
           start == SendMessageStart(apiKey, model, baseUrl, messageHistory)
           phase == IF ~isConfigured THEN "timer"
                    ELSE IF start.threw THEN "done" ELSE "fetch"
           send  == [phase |-> phase, text |-> input,
                     configured |-> isConfigured,
                     before |-> messages,
                     history |-> IF isConfigured THEN messageHistory ELSE <<>>,
                     prompt |-> IF isConfigured THEN systemPrompt.content ELSE <<>>,
                     quiet |-> Outstanding(sends) = {},
                     cut |-> FALSE,
                     start |-> start,
                     outcome |-> NetworkFailure,
                     result |-> IF isConfigured /\ start.threw
                                THEN Threw(start.error) ELSE Threw(<<>>)]
       IN /\ messages' = IF phase = "done"
                         THEN messages \o <<UserMessage(input), ErrorMessage(start.error)>>
                         ELSE Append(messages, UserMessage(input))
          /\ isLoading' = (phase = "fetch")
          /\ sends' = Append(Disturb(sends, FALSE), send)
    /\ input' = <<>>
    /\ UNCHANGED <<tokenRates, sessVars, adapVars, promptVars, renderVars, dialogVars, mountVars>>

\* the form's submit button: disabled={isLoading || !input.trim()}
SubmitButton ==
    /\ ~isLoading
    /\ HandleSubmit

\* the Textarea's onKeyDown: Enter without Shift calls handleSubmit
SubmitEnter == HandleSubmit

\* lines 119-163, after the await: fetch has settled with outcome o
ResponseArrives(i, o) ==
    /\ i \in DOMAIN sends
    /\ sends[i].phase = "fetch"
    /\ LET r == SendMessageSettle(baseUrl, o)
       IN /\ messages' = Append(messages,
                                IF r.threw THEN ErrorMessage(r.error)
                                ELSE AssistantMessage(r))
          /\ sends' = [sends EXCEPT ![i].phase = "done",
                                    ![i].outcome = o,
                                    ![i].result = r]
    /\ isLoading' = FALSE
    /\ UNCHANGED <<input, tokenRates, sessVars, adapVars, promptVars, renderVars, dialogVars, mountVars>>

\* TimerFires that appends nothing
TimerFires_NoEntry(i) ==
    /\ i \in DOMAIN sends
    /\ sends[i].phase = "timer"
    /\ sends' = [sends EXCEPT ![i].phase = "done"]
    /\ UNCHANGED <<input, messages, isLoading, tokenRates, sessVars, adapVars, promptVars, renderVars, dialogVars, mountVars>>

\* lines 135-147: the one-second timer of the simulated reply fires
TimerFires(i) ==
    /\ i \in DOMAIN sends
    /\ sends[i].phase = "timer"
    /\ messages' = Append(messages, SimulatedMessage(sends[i].text))
    /\ sends' = [sends EXCEPT ![i].phase = "done"]
    /\ UNCHANGED <<input, isLoading, tokenRates, sessVars, adapVars, promptVars, renderVars, dialogVars, mountVars>>

\* ClearConversation that drops the last entry only
ClearConversation_DropsLast ==
    /\ messages # <<>>
    /\ messages' = SubSeq(messages, 1, Len(messages) - 1)
    /\ sends' = Disturb(sends, TRUE)
    /\ UNCHANGED <<input, isLoading, tokenRates, sessVars, adapVars, promptVars, renderVars, dialogVars, mountVars>>

\* ClearConversation that also puts the pricing entry back to its initial one
ClearConversation_ResetsRates ==
    /\ messages # <<>>
    /\ messages' = <<>>
    /\ tokenRates' = Rates(<<>>)
    /\ sends' = Disturb(sends, TRUE)
    /\ UNCHANGED <<input, isLoading, sessVars, adapVars, promptVars, renderVars, dialogVars, mountVars>>

\* lines 176-185, the confirm dialog answered with OK
ClearConversation ==
    /\ messages # <<>>
    /\ messages' = <<>>
    /\ sends' = Disturb(sends, TRUE)
    /\ UNCHANGED <<input, isLoading, tokenRates, sessVars, adapVars, promptVars, renderVars, dialogVars, mountVars>>

\* the model identifiers that can be selected
ModelChoices == {Gpt4o, ClaudeHaiku}

\* lines 187-222: setTokenRates by the switch, then setModel. The render
\* that follows and its effects are flushed before the next event: the hook
\* persists the model (part_001:125-131) and the effect of lines 75-79 calls
\* handleModelChange(currentModel) again, with the same outcome.
HandleModelChange(m) ==
    /\ Len(sends) < MaxSends
    /\ m # model
    /\ LET c == [Closure EXCEPT !.model = m]
           w == RunEffects([World EXCEPT !.model = m], c, FALSE, prevDeps)
       IN /\ apiKey' = w.apiKey
          /\ model' = w.model
          /\ baseUrl' = w.baseUrl
          /\ isConfigured' = w.isConfigured
          /\ currentProvider' = w.currentProvider
          /\ sessionStorage' = w.store
          /\ prevDeps' = c
          /\ tokenRates' = IF Truthy(w.model) THEN Rates(w.model) ELSE Rates(m)
    /\ UNCHANGED <<mounted, trail, ops>>
    /\ UNCHANGED <<input, messages, isLoading, sends, adapVars, promptVars, renderVars, dialogVars, mountVars>>

ChatNext ==
    \/ \E t \in ChatTexts \cup {<<>>} : SetInput(t)
    \/ SubmitButton
    \/ SubmitEnter
    \/ \E i \in 1..MaxSends, o \in ChatOutcomes : ResponseArrives(i, o)
    \/ \E i \in 1..MaxSends : TimerFires(i)
    \/ ClearConversation

SpecChat == ChatInit /\ [][ChatNext]_vars

-----------------------------------------------------------------------------
(* The page as a whole: the conversation together with the model selection *)
(* and the System Prompt editor, on fewer sessions and provider outcomes   *)

PageConfigs == {<<"google", <<>>, GeminiFlash, GoogleUrl>>,
                <<"openai", <<"k1">>, Gpt4o, OpenAIUrl>>}

PageOutcomes ==
    {Http401,
     Ok([choices |-> <<Choice(HiThere)>>, usage |-> [completion_tokens |-> 3]])}

PageInit ==
    /\ \E c \in PageConfigs : SettledOn(c[1], c[2], c[3], c[4])
    /\ call = Idle
    /\ ChatIdle
    /\ PromptIdle
    /\ preview = NoPreview
    /\ dialog = DialogClosed(FALSE)
    /\ booted = NoBoot

PageNext ==
    \/ \E t \in {Hi, <<>>} : SetInput(t)
    \/ \E m \in ModelChoices : HandleModelChange(m)
    \/ StartEditSystem
    \/ TypeSystemPrompt(BeTerse)
    \/ SubmitButton
    \/ SubmitEnter
    \/ \E i \in 1..MaxSends, o \in PageOutcomes : ResponseArrives(i, o)
    \/ \E i \in 1..MaxSends : TimerFires(i)
    \/ ClearConversation

SpecPage == PageInit /\ [][PageNext]_vars

\* the page when every fetch settles and every timer fires: a pending
\* continuation of handleSubmit is eventually run
PageFairness ==
    \A i \in 1..MaxSends :
        /\ WF_vars(\E o \in PageOutcomes : ResponseArrives(i, o))
        /\ WF_vars(TimerFires(i))

SpecPageFair == SpecPage /\ PageFairness

-----------------------------------------------------------------------------
(* Claims about the session configuration (SpecSession) *)

\* the fixed per-provider defaults of lines 44-63 / 88-107; custom has none
FixedDefaults ==
    [p \in Providers |->
        IF p = "openai" THEN {[model |-> Gpt4o, baseUrl |-> OpenAIUrl]}
        ELSE IF p = "google" THEN {[model |-> GeminiFlash, baseUrl |-> GoogleUrl]}
        ELSE IF p = "anthropic" THEN {[model |-> ClaudeHaiku, baseUrl |-> AnthropicUrl]}
        ELSE {}]

\* C1: a settled session on provider A with credential k, model m and base
\* URL b that is switched to another provider and, with no edit in between,
\* back to A settles on exactly k, m and b again, for every value of k, m
\* and b, the empty ones included.
C1_RoundTripRestores ==
    (Settled /\ Len(trail) >= 2 /\ trail[Len(trail) - 1].provider = currentProvider)
    => LET a == trail[Len(trail) - 1]
       IN apiKey = a.apiKey /\ model = a.model /\ baseUrl = a.baseUrl

\* C1, the case that occurs: a round trip has been made and has settled
C1_RoundTripMade ==
    /\ Settled /\ Len(trail) >= 2
    /\ trail[Len(trail) - 1].provider = currentProvider
    /\ trail[Len(trail) - 1].apiKey # <<>>
    /\ apiKey = trail[Len(trail) - 1].apiKey

\* C2: once a switch to provider P has settled, credential, model and base
\* URL each equal the value that was stored for P before the switch if there
\* was one; otherwise the credential is empty and model and base URL are
\* P's fixed defaults, for each of the four providers.
C2_SwitchLoadsStoredOrDefaults ==
    (Settled /\ Len(trail) >= 1)
    => LET before        == trail[Len(trail)].store
           storedApiKey  == getItem(before, KApiKey(currentProvider))
           storedModel   == getItem(before, KModel(currentProvider))
           storedBaseUrl == getItem(before, KBaseUrl(currentProvider))
       IN /\ apiKey = IF Truthy(storedApiKey) THEN storedApiKey ELSE <<>>
          /\ IF Truthy(storedModel) THEN model = storedModel
             ELSE \E d \in FixedDefaults[currentProvider] : model = d.model
          /\ IF Truthy(storedBaseUrl) THEN baseUrl = storedBaseUrl
             ELSE \E d \in FixedDefaults[currentProvider] : baseUrl = d.baseUrl

\* C2, the case that occurs: a switch to custom, which had nothing stored,
\* has settled
C2_SwitchedToCustom ==
    /\ Settled /\ Len(trail) >= 1 /\ currentProvider = "custom"
    /\ ~Truthy(getItem(trail[Len(trail)].store, KModel("custom")))

\* C3: in every state of the hook, the states between a state update and
\* the effects it triggers included, isConfigured is true exactly when the
\* current credential is non-empty.
C3_IsConfiguredIffKey == isConfigured = Truthy(apiKey)

\* C3, the case that occurs: a render whose effects have not run yet
C3_EffectsPending == mounted /\ ~Settled /\ Truthy(apiKey)

-----------------------------------------------------------------------------
(* Claims about the conversation (SpecChat) *)

\* the response carries usage.completion_tokens
Reports(o) ==
    /\ ~o.rejects /\ o.ok /\ o.readable
    /\ Has(o.data, "usage") /\ Has(o.data.usage, "completion_tokens")

\* send i has finished, and nothing but its own reply has happened to the
\* conversation since it was submitted with no other send outstanding
FinishedQuietly(i) ==
    /\ i \in DOMAIN sends
    /\ sends[i].phase = "done" /\ sends[i].quiet

\* a reply in the primary-REST shape, with content and a reported count,
\* has arrived on a primary-REST or custom session
RepliedWithCount(i) ==
    /\ FinishedQuietly(i)
    /\ sends[i].configured
    /\ currentProvider \in {"openai", "custom"}
    /\ Reports(sends[i].outcome)
    /\ ~sends[i].result.threw

\* C4: on a configured session with no send outstanding, a send of non-blank
\* text t whose reply has content c and reported completion-token count n
\* leaves the conversation exactly two entries longer, a user entry
\* (t, estimate(t)) followed by an assistant entry (c, n); the input total
\* grows by estimate(t) and the output total by n.
C4_SendAppendsUserAndReply ==
    \A i \in 1..MaxSends :
        RepliedWithCount(i) =>
            LET s == sends[i]
                t == s.text
                c == s.outcome.data.choices[1].message.content
                n == s.outcome.data.usage.completion_tokens
            IN /\ messages = s.before \o <<Entry("user", t, countTokens(t)),
                                           Entry("assistant", c, n)>>
               /\ SumTokens(messages, "user")
                    = SumTokens(s.before, "user") + countTokens(t)
               /\ SumTokens(messages, "assistant")
                    = SumTokens(s.before, "assistant") + n

\* C4, the case that occurs: the second send of a conversation got a reply
\* reporting three completion tokens
C4_ReplyWithCountArrived ==
    \E i \in 1..MaxSends :
        /\ RepliedWithCount(i)
        /\ sends[i].before # <<>>
        /\ sends[i].outcome.data.usage.completion_tokens = 3

\* the step in which the provider call of send i fails
FailureStep(i) ==
    /\ i \in DOMAIN sends
    /\ sends[i].phase = "fetch"
    /\ sends'[i].phase = "done"
    /\ sends'[i].result.threw

\* C5: when the provider call of a send fails (rejected fetch, non-success
\* status, unusable body), exactly one assistant entry carrying the error
\* description with token count 0 is appended, the user entry of that send
\* is still in place, the output total is unchanged and every earlier entry
\* is kept as it was.
C5_FailureBecomesEntry ==
    [][\A i \in 1..MaxSends :
          FailureStep(i) =>
              /\ sends'[i].result.error # <<>>
              /\ messages' = Append(messages,
                                    Entry("assistant",
                                          <<ErrPrefix>> \o sends'[i].result.error, 0))
              /\ SumTokens(messages', "assistant") = SumTokens(messages, "assistant")
              /\ ~sends[i].cut =>
                    messages'[Len(sends[i].before) + 1]
                      = Entry("user", sends[i].text, countTokens(sends[i].text))]_vars

\* C5, the case that occurs: a send failed with a non-success status after
\* an earlier exchange, and its error entry is the last one
C5_FailureHandled ==
    \E i \in 1..MaxSends :
        /\ FinishedQuietly(i)
        /\ sends[i].outcome = Http401
        /\ sends[i].before # <<>>
        /\ messages[Len(messages)].tokens = 0
        /\ messages[Len(messages) - 1].role = "user"

\* C7: on the primary-REST and custom variants, whenever the response
\* carries usage.completion_tokens, for every reported value, 0 included,
\* the token count of the resulting assistant entry is the reported value.
C7_ReportedCountWins ==
    \A i \in 1..MaxSends :
        RepliedWithCount(i) =>
            messages[Len(messages)].tokens
              = sends[i].outcome.data.usage.completion_tokens

\* C7, the case that occurs: a reply reporting zero completion tokens for a
\* non-empty content
C7_ZeroReported ==
    \E i \in 1..MaxSends :
        /\ RepliedWithCount(i)
        /\ sends[i].outcome.data.usage.completion_tokens = 0
        /\ sends[i].result.content # <<>>

\* C10: at most one send is outstanding at any time, whether submissions
\* are made through the button or the Enter key, configured or not.
C10_OneOutstandingSend == Cardinality(Outstanding(sends)) <= 1

\* C10, the case that occurs: a send is outstanding and text has been typed
C10_TypedWhileOutstanding ==
    Outstanding(sends) # {} /\ Truthy(Trim(input))

-----------------------------------------------------------------------------
(* Claims about usage totals, cost and the message list (SpecPage) *)

RECURSIVE SumAt(_, _)
\* the sum of the token counts of the entries of ms at the positions I
SumAt(I, ms) ==
    IF I = {} THEN 0
    ELSE LET i == CHOOSE j \in I : TRUE
         IN ms[i].tokens + SumAt(I \ {i}, ms)

EntriesOf(role) == {i \in DOMAIN messages : messages[i].role = role}

\* C11: in every reachable state the input total is the sum of the token
\* counts of the user entries, the output total the sum over the assistant
\* entries (entries of any other role count for neither), and the costs are
\* inputTokens x inputPrice, outputTokens x outputPrice and their sum, with
\* the prices of the pricing entry of the session's model.
C11_TotalsAndCosts ==
    LET ins   == SumAt(EntriesOf("user"), messages)
        outs  == SumAt(EntriesOf("assistant"), messages)
        entry == Rates(model)
    IN /\ tokenStats.inputTokens = ins
       /\ tokenStats.outputTokens = outs
       /\ totalTokens = ins + outs
       /\ tokenRates = entry
       /\ inputCost = ins * entry.inputPrice
       /\ outputCost = outs * entry.outputPrice
       /\ totalCost = ins * entry.inputPrice + outs * entry.outputPrice

\* C11, the case that occurs: two exchanges with counted replies, priced by
\* an entry other than the initial one
C11_BothRolesCounted ==
    /\ Len(messages) >= 4
    /\ SumAt(EntriesOf("user"), messages) > 0
    /\ SumAt(EntriesOf("assistant"), messages) > 3
    /\ tokenRates.model = "claude-3-haiku"

\* C12: in a step that is not a clearing of the conversation neither total
\* decreases, and a clearing leaves both at zero.
C12_TotalsOnlyResetByClear ==
    [][/\ ~ClearConversation =>
             /\ tokenStats'.inputTokens >= tokenStats.inputTokens
             /\ tokenStats'.outputTokens >= tokenStats.outputTokens
       /\ ClearConversation =>
             /\ tokenStats'.inputTokens = 0
             /\ tokenStats'.outputTokens = 0]_vars

\* C12, the case that occurs: a conversation that had replies was cleared
C12_ClearedAfterSends ==
    /\ messages = <<>>
    /\ sends # <<>>
    /\ \A i \in DOMAIN sends : sends[i] = Archived

\* a step in which the selected model changes
ModelChangeStep == \E m \in ModelChoices : HandleModelChange(m)

\* C13: selecting another model leaves the usage totals and the total cost
\* as they were immediately before the selection.
C13_ModelChangeKeepsCost ==
    [][ModelChangeStep =>
          /\ tokenStats' = tokenStats
          /\ totalCost' = totalCost]_vars

\* C13, the case that occurs: another model was selected after tokens had
\* been accumulated
C13_ModelChangedWithTotals ==
    /\ tokenRates.model = "claude-3-haiku"
    /\ tokenStats.inputTokens > 0 /\ tokenStats.outputTokens > 0

\* a step that empties a conversation
ClearStep == messages # <<>> /\ messages' = <<>>

\* C14: a clearing leaves the conversation empty and both totals at zero,
\* and leaves provider, credential, model, base URL, isConfigured and their
\* stored values, the active pricing entry, the stored prompts and the
\* System Prompt as they were.
C14_ClearKeepsEverythingElse ==
    [][ClearStep =>
          /\ tokenStats'.inputTokens = 0 /\ tokenStats'.outputTokens = 0
          /\ UNCHANGED <<currentProvider, apiKey, model, baseUrl, isConfigured,
                         sessionStorage>>
          /\ UNCHANGED tokenRates
          /\ UNCHANGED <<prompts, systemPrompt, localStorage>>]_vars

\* C14, the case that occurs: a conversation was cleared on a session with
\* a selected model and an edited System Prompt
C14_ClearedConfiguredPage ==
    /\ messages = <<>> /\ sends # <<>>
    /\ isConfigured
    /\ tokenRates.model = "claude-3-haiku"
    /\ systemPrompt.content # <<DefaultSystemText>>

\* C15: the message list handed to the provider for a send is one system
\* message holding the content the System Prompt had at the send, then the
\* earlier non-system entries in their order, then the new user message.
C15_SystemPromptHeadsHistory ==
    \A i \in DOMAIN sends :
        (sends[i].configured /\ sends[i].phase = "fetch") =>
            LET s    == sends[i]
                rest == SelectSeq2(s.before, "system")
            IN s.history
                 = <<Msg("system", s.prompt)>>
                     \o [j \in 1..Len(rest) |-> Msg(rest[j].role, rest[j].content)]
                     \o <<Msg("user", s.text)>>

\* C15, the case that occurs: a send made after the System Prompt was edited
C15_SentAfterEdit ==
    \E i \in DOMAIN sends :
        /\ sends[i].configured /\ sends[i].phase = "fetch"
        /\ sends[i].before # <<>>
        /\ sends[i].prompt # <<DefaultSystemText>>

-----------------------------------------------------------------------------
(* Claims about sendMessage (SpecAdapter) *)

CallFinished == call.phase \in {"returned", "threw"}

\* C6: sendMessage called while the credential is empty fails with the
\* configuration error before any endpoint is constructed and before any
\* HTTP request is issued; no request is ever made with an empty credential.
C6_NoKeyNoRequest ==
    /\ (call.phase # "idle" /\ ~Truthy(apiKey))
         => /\ call.phase = "threw"
            /\ call.result = Threw(ConfigErrorText)
            /\ ~call.start.built
            /\ call.start.request.endpoint = <<>>
            /\ call.start.fetches = 0
    /\ call.start.fetches > 0 => Truthy(apiKey)

\* C6, the case that occurs: a call with an empty credential has been made
C6_CalledWithoutKey ==
    call.phase = "threw" /\ ~Truthy(apiKey) /\ call.msgs # <<>>

\* C8: for every provider variant and every 2xx response with a JSON body,
\* the bodies whose choices / content / candidates are missing or empty
\* included, parsing does not raise.
C8_ParsingNeverRaises ==
    (CallFinished /\ call.start.built /\ call.outcome.ok /\ call.outcome.readable)
        => ~call.result.threw

\* C8, the case that occurs: a 2xx body without any of the expected fields
C8_MalformedBodyParsed ==
    /\ CallFinished /\ call.start.built
    /\ call.outcome.ok /\ call.outcome.readable
    /\ call.outcome.data = [id |-> <<"resp-1">>]

\* the last n tokens of a text
Suffix(t, n) == SubSeq(t, Len(t) - n + 1, Len(t))

\* C9: a non-2xx status makes sendMessage fail with an error that carries
\* the status code and the raw error payload, the empty payload {} when the
\* error body cannot be read; no content or token count is returned, and
\* the request was issued once.
C9_HttpErrorSurfaces ==
    (CallFinished /\ call.start.built /\ ~call.outcome.rejects /\ ~call.outcome.ok)
        => LET payload == IF call.outcome.readable
                          THEN <<"{\"error\":\"">> \o call.outcome.data.error \o <<"\"}">>
                          ELSE <<"{}">>
               e == call.result.error
           IN /\ call.phase = "threw"
              /\ call.result.threw
              /\ Includes(e, call.outcome.status)
              /\ Len(e) >= Len(payload)
              /\ Suffix(e, Len(payload)) = payload
              /\ call.result.content = <<>> /\ call.result.tokens = 0
              /\ call.start.fetches = 1

\* C9, the case that occurs: a 500 whose body cannot be read
C9_UnreadableErrorBody ==
    call.phase = "threw" /\ call.start.built /\ call.outcome = Http500

\* C16: on the custom provider, whatever the base URL, the request has the
\* primary-REST shape (endpoint {base}/chat/completions, bearer
\* Authorization header, body of model, the message list verbatim and the
\* temperature) and the response is parsed along the primary-REST path.
C16_CustomUsesPrimaryRest ==
    (currentProvider = "custom" /\ call.start.built) =>
        /\ call.start.request.endpoint = baseUrl \o <<"/chat/completions">>
        /\ Has(call.start.request.headers, "Authorization")
        /\ call.start.request.headers["Authorization"] = <<"Bearer ">> \o apiKey
        /\ call.start.request.body
             = [model |-> model, messages |-> call.msgs, temperature |-> "0.7"]
        /\ (CallFinished /\ call.outcome.ok /\ call.outcome.readable)
              => call.result = ParseOpenAI(call.outcome.data)

\* C16, the case that occurs: a call on the custom provider whose base URL
\* holds another provider's host
C16_CustomOnAnotherHost ==
    /\ currentProvider = "custom" /\ CallFinished /\ call.start.built
    /\ Includes(baseUrl, "googleapis.com")
    /\ call.outcome.ok /\ call.outcome.readable

\* the request of the call was built by the generative-language branch
GoogleBuilt ==
    /\ call.start.built
    /\ Includes(baseUrl, "googleapis.com") /\ ~Includes(baseUrl, "openai.com")

\* the non-system messages of the call, in their order
NonSystem == SelectSeq2(call.msgs, "system")

\* endpoint, headers and systemInstruction of a generative-language request
GoogleEnvelope ==
    LET req  == call.start.request
        path == IF Includes(model, "/") THEN model ELSE <<"models", "/">> \o model
    IN /\ req.endpoint = baseUrl \o <<"/">> \o path
                           \o <<":generateContent?key=">> \o apiKey
       /\ DOMAIN req.headers = {"Content-Type"}
       /\ IF Truthy(SystemContent(call.msgs))
          THEN /\ Has(req.body, "systemInstruction")
               /\ req.body.systemInstruction
                    = [parts |-> <<[text |-> SystemContent(call.msgs)]>>]
          ELSE ~Has(req.body, "systemInstruction")

\* contents holds one single-part entry per non-system message, in order
GoogleContentsMirror ==
    LET contents == call.start.request.body.contents
    IN /\ Len(contents) = Len(NonSystem)
       /\ \A j \in 1..Len(NonSystem) :
             contents[j]
               = [role  |-> IF NonSystem[j].role = "assistant" THEN "model" ELSE "user",
                  parts |-> <<[text |-> NonSystem[j].content]>>]

\* C17, as stated: for the generative-language variant and any
\* conversation, the endpoint is {base}/{model-path}:generateContent?key=
\* {credential} with models/ prefixed exactly when the model has no '/', no
\* authentication header is sent, the system message is only in
\* systemInstruction, and contents holds one single-part entry per
\* non-system message in order, user as user and assistant as model.
C17_GoogleRequestShape ==
    GoogleBuilt => (GoogleEnvelope /\ GoogleContentsMirror)

\* C17, amended: the same, with contents mirroring the non-system messages
\* whenever there is at least one of them.
C17_GoogleRequestShapeNonEmpty ==
    GoogleBuilt => /\ GoogleEnvelope
                   /\ NonSystem # <<>> => GoogleContentsMirror

\* C17, the case that occurs: a conversation of three turns sent with a
\* model identifier without '/'
C17_GoogleConversationSent ==
    /\ GoogleBuilt
    /\ Len(NonSystem) = 3
    /\ ~Includes(model, "/")

\* C18: the contents of a generative-language request are never empty; when
\* the conversation holds no non-system message (it is empty or holds only
\* system messages) the single placeholder greeting turn is sent.
C18_ContentsNeverEmpty ==
    GoogleBuilt =>
        LET contents == call.start.request.body.contents
        IN /\ Len(contents) >= 1
           /\ NonSystem = <<>> =>
                 contents = <<[parts |-> <<[text |-> <<"H", "e", "l", "l", "o">>]>>]>>

\* C18, the case that occurs: a conversation of one system message
C18_OnlySystemSent ==
    /\ GoogleBuilt
    /\ call.msgs # <<>> /\ NonSystem = <<>>

-----------------------------------------------------------------------------
(* Claims about the stored prompts (SpecPrompts) *)

Blank(t) == ~Truthy(Trim(t))

\* a step in which handleCreatePrompt runs on a blank name or content
BlankCreateStep ==
    \E n \in PromptNames, c \in PromptContents, t \in BOOLEAN :
        /\ Blank(n) \/ Blank(c)
        /\ HandleCreatePrompt(n, c, t)

\* C19: creating a prompt whose name or content is blank after trimming
\* fails with a validation error that the caller gets to see, and leaves
\* the stored prompts as they were.
C19_BlankCreateFails ==
    [][BlankCreateStep =>
          /\ last'.thrown # <<>>
          /\ prompts' = prompts
          /\ localStorage' = localStorage]_vars

\* C19, the case that occurs: a create with a blank field was attempted
\* while a prompt was stored
C19_BlankCreateAttempted ==
    /\ last.op = "create" /\ ~last.accepted
    /\ prompts # <<>>

\* C20: the stored prompts have pairwise distinct ids, none of them the
\* System Prompt's, and no operation changes the id of a stored prompt;
\* this also holds for prompts created at the same clock reading.
C20_IdsDistinctAndStable ==
    /\ [](/\ \A i, j \in DOMAIN prompts : i # j => prompts[i].id # prompts[j].id
          /\ \A i \in DOMAIN prompts : prompts[i].id # systemPrompt.id)
    /\ [][Len(prompts') >= Len(prompts) =>
             \A i \in DOMAIN prompts : prompts'[i].id = prompts[i].id]_vars

\* C20, the case that occurs: two prompts created at one clock reading
C20_TwoCreatedAtOneReading ==
    /\ Len(prompts) = 2
    /\ now = 0
    /\ last.op = "create" /\ last.accepted

\* the sequence ps without its i-th element
RemoveAt(ps, i) == SubSeq(ps, 1, i - 1) \o SubSeq(ps, i + 1, Len(ps))

\* C21: the System Prompt cannot be deleted and stays present; deleting a
\* stored prompt removes exactly that prompt and leaves every other prompt
\* as it was, and afterwards no stored prompt is found under its id.
C21_DeleteRemovesExactlyOne ==
    [][\A i \in 1..MaxPrompts :
          HandleDeletePrompt(i) =>
              /\ prompts' = RemoveAt(prompts, i)
              /\ \A j \in DOMAIN prompts' : prompts'[j].id # prompts[i].id
              /\ systemPrompt' = systemPrompt
              /\ systemPrompt'.id = "system"]_vars

\* C21, the case that occurs: one of two stored prompts was deleted
C21_OneOfTwoDeleted ==
    /\ last.op = "delete"
    /\ Len(prompts) = 1

-----------------------------------------------------------------------------
(* C23: rendering a template *)

\* every occurrence of the placeholder replaced by exactly x, every other
\* token kept
RECURSIVE Substituted(_, _)
Substituted(template, x) ==
    IF template = <<>> THEN <<>>
    ELSE (IF Head(template) = Placeholder THEN x ELSE <<Head(template)>>)
         \o Substituted(Tail(template), x)

\* C23: for every template content and every non-empty user input X, the
\* rendering replaces each occurrence of {query} with exactly X and leaves
\* every other character unchanged; a non-template prompt renders as its
\* stored content for any user input.
C23_RenderSubstitutesExactly ==
    preview.shown =>
        /\ (preview.isTemplate /\ preview.input # <<>>) =>
               preview.out = Substituted(preview.content, preview.input)
        /\ ~preview.isTemplate => preview.out = preview.content

\* a template with a placeholder has been rendered for an input holding "$"
C23_DollarInputRendered ==
    /\ preview.shown /\ preview.isTemplate
    /\ Includes(preview.content, Placeholder)
    /\ Includes(preview.input, "$")

-----------------------------------------------------------------------------
(* C24: every submission gets its outcome *)

AssistantEntries(ms) == Len(SelectSeq(ms, LAMBDA e : e.role = "assistant"))

FinishedSends(S) == Cardinality({i \in DOMAIN S : S[i].phase = "done"})

\* C24: when every provider call settles and every timer fires, every
\* accepted submission is eventually finished, a step appends exactly one
\* assistant entry for each send it finishes and none otherwise, and
\* isLoading eventually returns to false.
C24_EverySubmissionAnswered ==
    /\ \A i \in 1..MaxSends :
           (i \in DOMAIN sends /\ sends[i].phase \in {"fetch", "timer"})
               ~> (i \in DOMAIN sends /\ sends[i].phase = "done")
    /\ isLoading ~> ~isLoading
    /\ [][IF messages' = <<>>
          THEN FinishedSends(sends') = FinishedSends(sends)
          ELSE /\ FinishedSends(sends') - FinishedSends(sends) \in {0, 1}
               /\ AssistantEntries(messages') - AssistantEntries(messages)
                     = FinishedSends(sends') - FinishedSends(sends)]_vars

\* two sends have been outstanding together and both are finished, the
\* loading flag is down
C24_OverlappingSendsAnswered ==
    /\ Len(sends) = 2
    /\ sends[1].phase = "done" /\ sends[2].phase = "done"
    /\ ~sends[2].quiet
    /\ AssistantEntries(messages) = 2
    /\ ~isLoading

-----------------------------------------------------------------------------
(* C25: what a provider switch writes to the storage *)

\* the effect pass of the render that follows setProvider
SwitchPass ==
    /\ EffectPass
    /\ mounted
    /\ prevDeps.currentProvider # currentProvider

\* C25: the effects that run on a provider switch write none of the outgoing
\* provider's credential, model and base URL under the incoming provider's
\* storage keys.
C25_SwitchWritesNoOutgoingValue ==
    [][SwitchPass =>
          LET p == currentProvider
          IN /\ sessionStorage'[KApiKey(p)] # sessionStorage[KApiKey(p)]
                    => sessionStorage'[KApiKey(p)] # prevDeps.apiKey
             /\ sessionStorage'[KModel(p)] # sessionStorage[KModel(p)]
                    => sessionStorage'[KModel(p)] # prevDeps.model
             /\ sessionStorage'[KBaseUrl(p)] # sessionStorage[KBaseUrl(p)]
                    => sessionStorage'[KBaseUrl(p)] # prevDeps.baseUrl]_vars

\* the first effect pass of a switch away from a provider that had a
\* credential has run
C25_SwitchPassRun ==
    /\ mounted /\ Len(trail) >= 1
    /\ prevDeps.currentProvider = currentProvider
    /\ trail[Len(trail)].provider # currentProvider
    /\ Truthy(trail[Len(trail)].apiKey)
    /\ sessionStorage[KApiKey(currentProvider)] = trail[Len(trail)].apiKey
    /\ ~Settled

-----------------------------------------------------------------------------
(* C26: Save in the configuration dialog *)

\* C26: after a Save with a non-blank key, once the effects have settled,
\* provider, credential and model are the ones chosen in the dialog, the
\* base URL is the chosen provider's fixed URL (the typed one for custom),
\* the same values are stored under that provider's keys, and isConfigured
\* is true.
C26_SaveTakesEffect ==
    (Settled /\ dialog.asked # NoSave)
    => LET a == dialog.asked
       IN /\ currentProvider = a.provider
          /\ apiKey = a.apiKey
          /\ model = a.model
          /\ baseUrl = a.baseUrl
          /\ getItem(sessionStorage, KProvider) = <<a.provider>>
          /\ getItem(sessionStorage, KApiKey(a.provider)) = a.apiKey
          /\ Truthy(a.model)
                => getItem(sessionStorage, KModel(a.provider)) = a.model
          /\ Truthy(a.baseUrl)
                => getItem(sessionStorage, KBaseUrl(a.provider)) = a.baseUrl
          /\ isConfigured

\* a Save to a provider that had nothing stored has closed the dialog and
\* the effects have settled
C26_SavedToNewProvider ==
    /\ Settled /\ dialog.asked # NoSave /\ ~dialog.isOpen
    /\ dialog.asked.provider = "openai"
    /\ currentProvider = "openai"

-----------------------------------------------------------------------------
(* C27: what constructing the hook does to the storage *)

\* the provider a construction finds stored, google when it finds none
StoredProvider(store) ==
    IF Truthy(getItem(store, KProvider)) THEN getItem(store, KProvider)[1]
    ELSE "google"

\* C27: once the hook constructed over a storage that names provider P has
\* settled, P is the current provider, credential, model and base URL are
\* the ones that were stored for P, and the credential, model and base URL
\* stored for every other provider are as they were before.
C27_MountRestoresAndKeeps ==
    (Settled /\ booted.on /\ Truthy(getItem(booted.store, KProvider)))
    => LET P == StoredProvider(booted.store)
       IN /\ currentProvider = P
          /\ Truthy(getItem(booted.store, KApiKey(P)))
                => apiKey = getItem(booted.store, KApiKey(P))
          /\ Truthy(getItem(booted.store, KModel(P)))
                => model = getItem(booted.store, KModel(P))
          /\ Truthy(getItem(booted.store, KBaseUrl(P)))
                => baseUrl = getItem(booted.store, KBaseUrl(P))
          /\ \A q \in Providers \ {P} :
                /\ sessionStorage[KApiKey(q)] = booted.store[KApiKey(q)]
                /\ sessionStorage[KModel(q)] = booted.store[KModel(q)]
                /\ sessionStorage[KBaseUrl(q)] = booted.store[KBaseUrl(q)]

\* a construction over a storage that names openai and holds a credential
\* for google has settled
C27_MountedOnOpenAI ==
    /\ Settled /\ booted.on
    /\ getItem(booted.store, KProvider) = <<"openai">>
    /\ Truthy(getItem(booted.store, KApiKey("google")))
    /\ Truthy(getItem(booted.store, KApiKey("openai")))

-----------------------------------------------------------------------------
(* C28: one provider variant per call *)

\* the call got a 2xx response with a JSON body, which was parsed
ResponseParsed ==
    /\ CallFinished /\ call.start.built
    /\ ~call.outcome.rejects /\ call.outcome.ok /\ call.outcome.readable

\* C28: for every base URL, the response of a call is parsed by the provider
\* variant that built the request of the call.
C28_ParsedByBuildingVariant ==
    ResponseParsed =>
        \/ /\ call.start.request = OpenAIRequest(apiKey, model, baseUrl, call.msgs)
           /\ call.result = ParseOpenAI(call.outcome.data)
        \/ /\ call.start.request = GoogleRequest(apiKey, model, baseUrl, call.msgs)
           /\ call.result = ParseGoogle(call.outcome.data)
        \/ /\ call.start.request = AnthropicRequest(apiKey, model, baseUrl, call.msgs)
           /\ call.result = ParseAnthropic(call.outcome.data)

\* a generative-language body has been parsed on a base URL that holds the
\* hosts of two providers
C28_TwoHostsParsed ==
    /\ ResponseParsed
    /\ Includes(baseUrl, "anthropic.com") /\ Includes(baseUrl, "googleapis.com")
    /\ Has(call.outcome.data, "candidates")

-----------------------------------------------------------------------------
(* C29: replies and the clearing of the conversation *)

UserEntries(ms) == Len(SelectSeq(ms, LAMBDA e : e.role = "user"))

\* the latest send was outstanding when the conversation was cleared, and
\* nothing has been submitted since
ClearedWhilePending == sends # <<>> /\ sends[Len(sends)].cut

\* C29: every assistant entry of the conversation has the user entry of its
\* send before it, so no prefix of the conversation holds more assistant
\* than user entries; and after a clear, until the next submission, nothing
\* is appended for a send submitted before the clear and the usage totals
\* stay zero.
C29_RepliesFollowTheirSubmission ==
    /\ \A j \in DOMAIN messages :
           AssistantEntries(SubSeq(messages, 1, j))
              <= UserEntries(SubSeq(messages, 1, j))
    /\ ClearedWhilePending => (messages = <<>> /\ totalTokens = 0)

\* a send that was outstanding when the conversation was cleared has
\* finished
C29_FinishedAfterClear ==
    /\ ClearedWhilePending
    /\ sends[Len(sends)].phase = "done"

-----------------------------------------------------------------------------
(* C30: cancelling an edit *)

\* a step of an edit that is not its Save: typing into the editor of the
\* System Prompt, or cancelling it
SystemEditStep ==
    \/ \E t \in SystemTexts : TypeSystemPrompt(t)
    \/ CancelEditSystem

\* the same for the edit form of a regular prompt
PromptEditStep ==
    \/ \E t \in PromptNames : EditName(t)
    \/ \E t \in PromptContents : EditContent(t)
    \/ CancelEdit

\* C30: an edit that is cancelled leaves the stored and the persisted record
\* as they were when it started, that is, neither changing the text in the
\* editor nor cancelling changes them, for the System Prompt and for a
\* regular prompt; and the stored System Prompt content is never empty
\* after trimming.
C30_CancelledEditChangesNothing ==
    /\ [][SystemEditStep =>
             /\ systemPrompt' = systemPrompt
             /\ localStorage' = localStorage]_vars
    /\ [][PromptEditStep =>
             /\ prompts' = prompts
             /\ localStorage' = localStorage]_vars
    /\ [](Truthy(Trim(systemPrompt.content))
          /\ Truthy(Trim(localStorage.llm_system_prompt.content)))

\* an edit of the System Prompt in which a blank was typed has been
\* cancelled
C30_BlankTypedAndCancelled ==
    /\ ~isEditingSystem /\ editingPrompt = NoPrompt
    /\ last = Did("form", TRUE)
    /\ systemPrompt.content = <<" ">>

=============================================================================
